---- MODULE Spec2Model ----
(***************************************************************************)
(* Model of src/src/simu/bloch.c: the Bloch-equation kernels (rotations,   *)
(* ODE right-hand side, closed-form propagators, Jacobians) and the        *)
(* builders of the augmented linear operators (4x4, 10x10, 13x13 and the   *)
(* (1+3P)x(1+3P) Bloch-McConnell operator).                                 *)
(*                                                                         *)
(* Numbers.  Matrix builders, bloch_ode and the Jacobians use only +, -    *)
(* and *, and are evaluated exactly over the integers.  The rotation       *)
(* kernels and the closed-form propagators call cosf, sinf and expf; they  *)
(* are evaluated over first-order jets <<v, d>> = v + d*t + O(t^2) in the  *)
(* time step t, with angles whose value part is a whole number of quarter  *)
(* turns (where cos and sin are exactly -1, 0 or 1).                       *)
(***************************************************************************)
EXTENDS Integers, Sequences, FiniteSets, TLC

VARIABLES pc, aborted, M, r1, r2, gb, angle, phase, b1, pool, out, mat, mem

vars == <<pc, aborted, M, r1, r2, gb, angle, phase, b1, pool, out, mat, mem>>

(***************************************************************************)
(* Bounds of the input domains.                                            *)
(***************************************************************************)
MaxMag == 1
MaxRate == 1
MaxField == 1

MagVals == (-MaxMag)..MaxMag
RateVals == 0..MaxRate
FieldVals == (-MaxField)..MaxField

(***************************************************************************)
(* float[3] and float[n][n], indexed from 0 as in the source.              *)
(***************************************************************************)
V3(a, b, c) == [i \in 0..2 |-> CASE i = 0 -> a [] i = 1 -> b [] i = 2 -> c]

Vec3s(S) == {V3(a, b, c) : a \in S, b \in S, c \in S}

\* equilibrium magnetization: "float m0 = 1.;" in every function
m0 == 1

\* num/linalg.h matf_copy(N, M, dst, src): dst[i][j] = src[i][j]; the source
\* literal is written here as a tuple of rows
matf_copy(N, K, src) == [i \in 0..(N - 1) |-> [j \in 0..(K - 1) |-> src[i + 1][j + 1]]]

\* num/vec3.h vec3_rot(dst, src1, src2): dst = src1 x src2
vec3_rot(in, g) ==
    V3(in[1] * g[2] - in[2] * g[1],
       in[2] * g[0] - in[0] * g[2],
       in[0] * g[1] - in[1] * g[0])

(***************************************************************************)
(* bloch_ode: dM/dt = M x B - relaxation                                   *)
(***************************************************************************)
bloch_ode(in, R1, R2, g) ==
    LET o == vec3_rot(in, g)
    IN  V3(o[0] - in[0] * R2, o[1] - in[1] * R2, o[2] - (in[2] - m0) * R1)

\* slip: the relaxation rates of the transverse and longitudinal rows exchanged
bloch_pdy_r1r2(in, R1, R2, g) ==
    LET o0 == vec3_rot(V3(1, 0, 0), g)
        o1 == vec3_rot(V3(0, 1, 0), g)
        o2 == vec3_rot(V3(0, 0, 1), g)
    IN  [i \in 0..2 |->
            CASE i = 0 -> [o0 EXCEPT ![0] = @ - R1]
              [] i = 1 -> [o1 EXCEPT ![1] = @ - R1]
              [] i = 2 -> [o2 EXCEPT ![2] = @ - R2]]

bloch_pdy(in, R1, R2, g) ==
    LET o0 == vec3_rot(V3(1, 0, 0), g)
        o1 == vec3_rot(V3(0, 1, 0), g)
        o2 == vec3_rot(V3(0, 0, 1), g)
    IN  [i \in 0..2 |->
            CASE i = 0 -> [o0 EXCEPT ![0] = @ - R2]
              [] i = 1 -> [o1 EXCEPT ![1] = @ - R2]
              [] i = 2 -> [o2 EXCEPT ![2] = @ - R1]]

bloch_pdp(in, R1, R2, g) ==
    [p \in 0..1 |->
        CASE p = 0 -> V3(0, 0, -(in[2] - m0))
          [] p = 1 -> V3(-in[0], -in[1], 0)]

\* slip: precession about z with the opposite sense
bloch_matrix_ode_flipped(R1, R2, g) ==
    matf_copy(4, 4, <<
        <<-R2,    -g[2],  -g[1],  0>>,
        <<g[2],   -R2,    g[0],   0>>,
        <<g[1],   -g[0],  -R1,    m0 * R1>>,
        <<0,      0,      0,      0>> >>)

bloch_matrix_ode(R1, R2, g) ==
    matf_copy(4, 4, <<
        <<-R2,    g[2],   -g[1],  0>>,
        <<-g[2],  -R2,    g[0],   0>>,
        <<g[1],   -g[0],  -R1,    m0 * R1>>,
        <<0,      0,      0,      0>> >>)

(***************************************************************************)
(* First-order jets in the time step t: <<v, d>> stands for v + d*t.       *)
(* A jet used as an angle has its value part in quarter turns and its      *)
(* derivative part in radians per unit of t.                               *)
(***************************************************************************)
J(n) == <<n, 0>>
Add(a, b) == <<a[1] + b[1], a[2] + b[2]>>
Sub(a, b) == <<a[1] - b[1], a[2] - b[2]>>
Neg(a) == <<-a[1], -a[2]>>
Mul(a, b) == <<a[1] * b[1], a[1] * b[2] + a[2] * b[1]>>

\* the formal time step t itself
TimeStep == <<0, 1>>

JV3(v) == [i \in 0..2 |-> J(v[i])]

\* cos and sin of q quarter turns
cosq(q) == CASE q % 4 = 0 -> 1 [] q % 4 = 1 -> 0 [] q % 4 = 2 -> -1 [] q % 4 = 3 -> 0
sinq(q) == CASE q % 4 = 0 -> 0 [] q % 4 = 1 -> 1 [] q % 4 = 2 -> 0 [] q % 4 = 3 -> -1

\* math.h cosf, sinf, expf to first order in t
cosf(a) == <<cosq(a[1]), -sinq(a[1]) * a[2]>>
sinf(a) == <<sinq(a[1]), cosq(a[1]) * a[2]>>
expf(x) == CASE x[1] = 0 -> <<1, x[2]>>

(***************************************************************************)
(* Memory: named float[3] buffers, and for each buffer the number of       *)
(* stores made to it.  A function that gets the same name for out and in   *)
(* is called with aliased arguments.                                       *)
(***************************************************************************)
Ld(m, b, i) == m.buf[b][i]

Store(m, b, i, x) ==
    [buf |-> [m.buf EXCEPT ![b][i] = x], stores |-> [m.stores EXCEPT ![b] = @ + 1]]

Alloc(m, b, v) ==
    [buf |-> (b :> v) @@ m.buf, stores |-> (b :> 0) @@ m.stores]

Free(m, keep) ==
    [buf |-> [b \in keep |-> m.buf[b]], stores |-> [b \in keep |-> m.stores[b]]]

(***************************************************************************)
(* Rotations, clockwise for angle > 0.  One store per source line.         *)
(***************************************************************************)
rotx(m, o, i, a) ==
    LET s1 == Store(m, o, 0, Ld(m, i, 0))
        s2 == Store(s1, o, 1, Add(Mul(Ld(s1, i, 1), cosf(a)), Mul(Ld(s1, i, 2), sinf(a))))
    IN  Store(s2, o, 2, Add(Mul(Neg(Ld(s2, i, 1)), sinf(a)), Mul(Ld(s2, i, 2), cosf(a))))

roty(m, o, i, a) ==
    LET s1 == Store(m, o, 0, Sub(Mul(Ld(m, i, 0), cosf(a)), Mul(Ld(m, i, 2), sinf(a))))
        s2 == Store(s1, o, 1, Ld(s1, i, 1))
    IN  Store(s2, o, 2, Add(Mul(Ld(s2, i, 0), sinf(a)), Mul(Ld(s2, i, 2), cosf(a))))

\* variant that reads every input component before the first store
rotz_buffered(m, o, i, a) ==
    LET s1 == Store(m, o, 0, Add(Mul(Ld(m, i, 0), cosf(a)), Mul(Ld(m, i, 1), sinf(a))))
        s2 == Store(s1, o, 1, Add(Mul(Neg(Ld(m, i, 0)), sinf(a)), Mul(Ld(m, i, 1), cosf(a))))
    IN  Store(s2, o, 2, Ld(m, i, 2))

rotz(m, o, i, a) ==
    LET s1 == Store(m, o, 0, Add(Mul(Ld(m, i, 0), cosf(a)), Mul(Ld(m, i, 1), sinf(a))))
        s2 == Store(s1, o, 1, Add(Mul(Neg(Ld(s1, i, 0)), sinf(a)), Mul(Ld(s1, i, 1), cosf(a))))
    IN  Store(s2, o, 2, Ld(s2, i, 2))

(***************************************************************************)
(* Closed-form propagators.  A failed assert ends the program before the   *)
(* next statement: the result carries aborted = TRUE and the memory as it  *)
(* was.                                                                    *)
(***************************************************************************)
\* slip: the assertion looks at gb[0] only
bloch_relaxation_weak_assert(m, o, t, i, R1, R2, g) ==
    IF ~(0 = g[0])
    THEN [aborted |-> TRUE, mem |-> m]
    ELSE LET s1 == rotz(m, o, i, Mul(J(g[2]), t))
             s2 == Store(s1, o, 0, Mul(Ld(s1, o, 0), expf(Mul(Neg(t), J(R2)))))
             s3 == Store(s2, o, 1, Mul(Ld(s2, o, 1), expf(Mul(Neg(t), J(R2)))))
             s4 == Store(s3, o, 2, Add(Ld(s3, o, 2),
                       Mul(Sub(J(m0), Ld(s3, i, 2)), Sub(J(1), expf(Mul(Neg(t), J(R1)))))))
         IN  [aborted |-> FALSE, mem |-> s4]

\* slip: precession applied counter-clockwise
bloch_relaxation_ccw(m, o, t, i, R1, R2, g) ==
    IF ~((0 = g[0]) /\ (0 = g[1]))
    THEN [aborted |-> TRUE, mem |-> m]
    ELSE LET s1 == rotz(m, o, i, Neg(Mul(J(g[2]), t)))
             s2 == Store(s1, o, 0, Mul(Ld(s1, o, 0), expf(Mul(Neg(t), J(R2)))))
             s3 == Store(s2, o, 1, Mul(Ld(s2, o, 1), expf(Mul(Neg(t), J(R2)))))
             s4 == Store(s3, o, 2, Add(Ld(s3, o, 2),
                       Mul(Sub(J(m0), Ld(s3, i, 2)), Sub(J(1), expf(Mul(Neg(t), J(R1)))))))
         IN  [aborted |-> FALSE, mem |-> s4]

bloch_relaxation(m, o, t, i, R1, R2, g) ==
    IF ~((0 = g[0]) /\ (0 = g[1]))
    THEN [aborted |-> TRUE, mem |-> m]
    ELSE LET s1 == rotz(m, o, i, Mul(J(g[2]), t))
             s2 == Store(s1, o, 0, Mul(Ld(s1, o, 0), expf(Mul(Neg(t), J(R2)))))
             s3 == Store(s2, o, 1, Mul(Ld(s2, o, 1), expf(Mul(Neg(t), J(R2)))))
             s4 == Store(s3, o, 2, Add(Ld(s3, o, 2),
                       Mul(Sub(J(m0), Ld(s3, i, 2)), Sub(J(1), expf(Mul(Neg(t), J(R1)))))))
         IN  [aborted |-> FALSE, mem |-> s4]

bloch_excitation(m, o, t, i, R1, R2, g) ==
    IF ~(0 = g[2])
    THEN [aborted |-> TRUE, mem |-> m]
    ELSE [aborted |-> FALSE, mem |-> rotx(m, o, i, Mul(J(g[0]), t))]

\* slip: the second z-rotation repeats the first instead of undoing it
bloch_excitation2_same_phase(m, o, i, a, ph) ==
    LET l0 == Alloc(Alloc(m, "tmp", JV3(V3(0, 0, 0))), "tmp2", JV3(V3(0, 0, 0)))
        l1 == rotz(l0, "tmp", i, Neg(ph))
        l2 == rotx(l1, "tmp2", "tmp", a)
        l3 == rotz(l2, o, "tmp2", Neg(ph))
    IN  Free(l3, DOMAIN m.buf)

bloch_excitation2(m, o, i, a, ph) ==
    LET l0 == Alloc(Alloc(m, "tmp", JV3(V3(0, 0, 0))), "tmp2", JV3(V3(0, 0, 0)))
        l1 == rotz(l0, "tmp", i, Neg(ph))
        l2 == rotx(l1, "tmp2", "tmp", a)
        l3 == rotz(l2, o, "tmp2", ph)
    IN  Free(l3, DOMAIN m.buf)

(***************************************************************************)
(* Parameter Jacobian with the B1 row, and the sensitivity operators.      *)
(* phase is a whole number of quarter turns.                               *)
(***************************************************************************)
bloch_b1_pdp(in, R1, R2, g, ph, B1) ==
    [p \in 0..2 |->
        CASE p = 0 -> V3(0, 0, -(in[2] - m0))
          [] p = 1 -> V3(-in[0], -in[1], 0)
          [] p = 2 -> V3(sinq(ph) * in[2] * B1,
                         cosq(ph) * in[2] * B1,
                         (-sinq(ph) * in[0] - cosq(ph) * in[1]) * B1)]

sa_rows(R1, R2, g) ==
    <<
        <<-R2,   g[2],  -g[1], 0,     0,     0,     0,     0,     0,     0>>,
        <<-g[2], -R2,   g[0],  0,     0,     0,     0,     0,     0,     0>>,
        <<g[1],  -g[0], -R1,   0,     0,     0,     0,     0,     0,     m0 * R1>>,
        <<0,     0,     0,     -R2,   g[2],  -g[1], 0,     0,     0,     0>>,
        <<0,     0,     0,     -g[2], -R2,   g[0],  0,     0,     0,     0>>,
        <<0,     0,     -1,    g[1],  -g[0], -R1,   0,     0,     0,     m0>>,
        <<-1,    0,     0,     0,     0,     0,     -R2,   g[2],  -g[1], 0>>,
        <<0,     -1,    0,     0,     0,     0,     -g[2], -R2,   g[0],  0>>,
        <<0,     0,     0,     0,     0,     0,     g[1],  -g[0], -R1,   0>>,
        <<0,     0,     0,     0,     0,     0,     0,     0,     0,     0>> >>

\* slip: the R1-sensitivity block without its constant forcing m0
bloch_matrix_ode_sa_unforced(R1, R2, g) ==
    matf_copy(10, 10, [sa_rows(R1, R2, g) EXCEPT ![6][10] = 0])

bloch_matrix_ode_sa(R1, R2, g) == matf_copy(10, 10, sa_rows(R1, R2, g))

sa2_rows(R1, R2, g, ph, B1) ==
    <<
        <<-R2,   g[2],  -g[1], 0,     0,     0,     0,     0,     0,     0,     0,     0,     0>>,
        <<-g[2], -R2,   g[0],  0,     0,     0,     0,     0,     0,     0,     0,     0,     0>>,
        <<g[1],  -g[0], -R1,   0,     0,     0,     0,     0,     0,     0,     0,     0,     m0 * R1>>,
        <<0,     0,     0,     -R2,   g[2],  -g[1], 0,     0,     0,     0,     0,     0,     0>>,
        <<0,     0,     0,     -g[2], -R2,   g[0],  0,     0,     0,     0,     0,     0,     0>>,
        <<0,     0,     -1,    g[1],  -g[0], -R1,   0,     0,     0,     0,     0,     0,     m0>>,
        <<-1,    0,     0,     0,     0,     0,     -R2,   g[2],  -g[1], 0,     0,     0,     0>>,
        <<0,     -1,    0,     0,     0,     0,     -g[2], -R2,   g[0],  0,     0,     0,     0>>,
        <<0,     0,     0,     0,     0,     0,     g[1],  -g[0], -R1,   0,     0,     0,     0>>,
        <<0,     0,     sinq(ph) * B1, 0, 0, 0,     0,     0,     0,     -R2,   g[2],  -g[1], 0>>,
        <<0,     0,     cosq(ph) * B1, 0, 0, 0,     0,     0,     0,     -g[2], -R2,   g[0],  0>>,
        <<-sinq(ph) * B1, -cosq(ph) * B1, 0, 0, 0, 0, 0,   0,     0,     g[1],  -g[0], -R1,   0>>,
        <<0,     0,     0,     0,     0,     0,     0,     0,     0,     0,     0,     0,     0>> >>

\* slip: sin and cos of the phase exchanged in the x row of the B1 block
bloch_matrix_ode_sa2_cos(R1, R2, g, ph, B1) ==
    matf_copy(13, 13, [sa2_rows(R1, R2, g, ph, B1) EXCEPT ![10][3] = cosq(ph) * B1])

bloch_matrix_ode_sa2(R1, R2, g, ph, B1) == matf_copy(13, 13, sa2_rows(R1, R2, g, ph, B1))

(***************************************************************************)
(* Bloch-McConnell operator for P pools.  old is the content of the output *)
(* buffer at the call.  Each loop nest of the source is one stage; every   *)
(* (p, q, i) of the exchange loop addresses a different entry, so its "+=" *)
(* adds k[p][q] to an entry exactly once.                                  *)
(***************************************************************************)
\* slip: the zeroing loop left out
mc_zero_skipped(N, old) == old

\* the zeroing loop
mc_zero(N, old) == [i \in 0..(N - 1) |-> [j \in 0..(N - 1) |-> 0]]

\* slip: the chemical shift of the pool not added to the field
mc_field_unshifted(g, om) == g

\* g[i] = gb[i]; g[2] += Om[p]
mc_field(g, om) == [g EXCEPT ![2] = @ + om]

bloch_mcconnel_matrix_ode(P, old, R1, R2, k, Th, Om, g) ==
    LET N == 1 + P * 3
        zeroed == mc_zero(N, old)
        gp(p) == mc_field(g, Om[p])
        m(p) == bloch_matrix_ode(R1[p], R2[p], gp(p))
        blocks == [i \in 0..(N - 1) |-> [j \in 0..(N - 1) |->
                     IF i < 3 * P /\ j < 3 * P /\ (i \div 3) = (j \div 3)
                     THEN m(i \div 3)[i % 3][j % 3]
                     ELSE zeroed[i][j]]]
        equil == [i \in 0..(N - 1) |-> [j \in 0..(N - 1) |->
                     IF i < 3 * P /\ i % 3 = 2 /\ j = N - 1
                     THEN m0 * Th[i \div 3] * R1[i \div 3]
                     ELSE blocks[i][j]]]
    IN  [i \in 0..(N - 1) |-> [j \in 0..(N - 1) |->
            IF i < 3 * P /\ j < 3 * P /\ i % 3 = j % 3
            THEN equil[i][j] + k[i \div 3][j \div 3]
            ELSE equil[i][j]]]

(***************************************************************************)
(* State.  pc names the last function called ("ready" before any call),    *)
(* aborted tells whether an assertion ended the program.  M, r1, r2, gb,   *)
(* angle, phase, b1 and pool are the caller's arguments.  out is a float[3]*)
(* result, mat a matrix result, mem the buffers handed to the rotation     *)
(* kernels and propagators.                                                *)
(***************************************************************************)
NoVec == V3(0, 0, 0)
NoMat == [i \in 0..0 |-> [j \in 0..0 |-> 0]]
NoPool == [P |-> 0]

\* content of a buffer nobody has written yet
Stale == JV3(V3(7, 7, 7))

InitMem(v) ==
    [buf |-> [b \in {"in", "out", "back"} |-> IF b = "in" THEN JV3(v) ELSE Stale],
     stores |-> [b \in {"in", "out", "back"} |-> 0]]

Idle ==
    /\ pc = "ready"
    /\ aborted = FALSE
    /\ out = NoVec
    /\ mat = NoMat
    /\ mem = InitMem(M)

inputs == <<M, r1, r2, gb, angle, phase, b1, pool>>

(***************************************************************************)
(* Single-pool kernels: bloch_ode, the Jacobians, the 4x4 operator and the *)
(* closed-form propagators, on one set of arguments.                       *)
(***************************************************************************)
InitBloch ==
    /\ M \in Vec3s(MagVals)
    /\ r1 \in RateVals
    /\ r2 \in RateVals
    /\ gb \in Vec3s(FieldVals)
    /\ angle = 0
    /\ phase = 0
    /\ b1 = 0
    /\ pool = NoPool
    /\ Idle

Ode ==
    /\ pc = "ready"
    /\ out' = bloch_ode(M, r1, r2, gb)
    /\ pc' = "ode"
    /\ UNCHANGED <<aborted, mat, mem, inputs>>

Pdy ==
    /\ pc = "ready"
    /\ mat' = bloch_pdy(M, r1, r2, gb)
    /\ pc' = "pdy"
    /\ UNCHANGED <<aborted, out, mem, inputs>>

Pdp ==
    /\ pc = "ready"
    /\ mat' = bloch_pdp(M, r1, r2, gb)
    /\ pc' = "pdp"
    /\ UNCHANGED <<aborted, out, mem, inputs>>

MatrixOde ==
    /\ pc = "ready"
    /\ mat' = bloch_matrix_ode(r1, r2, gb)
    /\ pc' = "matrix_ode"
    /\ UNCHANGED <<aborted, out, mem, inputs>>

Relaxation ==
    /\ pc = "ready"
    /\ LET res == bloch_relaxation(mem, "out", TimeStep, "in", r1, r2, gb)
       IN  /\ mem' = res.mem
           /\ aborted' = res.aborted
    /\ pc' = "relaxation"
    /\ UNCHANGED <<out, mat, inputs>>

Excitation ==
    /\ pc = "ready"
    /\ LET res == bloch_excitation(mem, "out", TimeStep, "in", r1, r2, gb)
       IN  /\ mem' = res.mem
           /\ aborted' = res.aborted
    /\ pc' = "excitation"
    /\ UNCHANGED <<out, mat, inputs>>

NextBloch == Ode \/ Pdy \/ Pdp \/ MatrixOde \/ Relaxation \/ Excitation

SpecBloch == InitBloch /\ [][NextBloch]_vars

(***************************************************************************)
(* Rotation kernels and the RF pulse.  dst = "in" is the aliased call      *)
(* rot(v, v, angle).                                                       *)
(***************************************************************************)
MaxTurns == 3

TurnVals == 0..MaxTurns

InitRot ==
    /\ M \in Vec3s(MagVals)
    /\ angle \in TurnVals
    /\ phase \in TurnVals
    /\ r1 = 0
    /\ r2 = 0
    /\ gb = NoVec
    /\ b1 = 0
    /\ pool = NoPool
    /\ Idle

RotPc(name, dst) == IF dst = "in" THEN name \o "_aliased" ELSE name

Rotx ==
    /\ pc = "ready"
    /\ \E dst \in {"out", "in"} :
        /\ mem' = rotx(mem, dst, "in", J(angle))
        /\ pc' = RotPc("rotx", dst)
    /\ UNCHANGED <<aborted, out, mat, inputs>>

Roty ==
    /\ pc = "ready"
    /\ \E dst \in {"out", "in"} :
        /\ mem' = roty(mem, dst, "in", J(angle))
        /\ pc' = RotPc("roty", dst)
    /\ UNCHANGED <<aborted, out, mat, inputs>>

Rotz ==
    /\ pc = "ready"
    /\ \E dst \in {"out", "in"} :
        /\ mem' = rotz(mem, dst, "in", J(angle))
        /\ pc' = RotPc("rotz", dst)
    /\ UNCHANGED <<aborted, out, mat, inputs>>

Excitation2 ==
    /\ pc = "ready"
    /\ mem' = bloch_excitation2(mem, "out", "in", J(angle), J(phase))
    /\ pc' = "excitation2"
    /\ UNCHANGED <<aborted, out, mat, inputs>>

\* the pulse with the opposite flip angle, applied to the result of the first
Excitation2Back ==
    /\ pc = "excitation2"
    /\ mem' = bloch_excitation2(mem, "back", "out", Neg(J(angle)), J(phase))
    /\ pc' = "excitation2_back"
    /\ UNCHANGED <<aborted, out, mat, inputs>>

NextRot == Rotx \/ Roty \/ Rotz \/ Excitation2 \/ Excitation2Back

SpecRot == InitRot /\ [][NextRot]_vars

(***************************************************************************)
(* Sensitivity operators and the parameter Jacobians they are built from.  *)
(* cos and sin have period four quarter turns, so 0..3 are all the phases. *)
(***************************************************************************)
MaxB1 == 2

InitSa ==
    /\ M \in Vec3s(0..MaxMag)
    /\ r1 \in RateVals
    /\ r2 \in RateVals
    /\ gb \in Vec3s(0..MaxField)
    /\ angle = 0
    /\ phase \in 0..3
    /\ b1 \in 1..MaxB1
    /\ pool = NoPool
    /\ Idle

B1Pdp ==
    /\ pc = "ready"
    /\ mat' = bloch_b1_pdp(M, r1, r2, gb, phase, b1)
    /\ pc' = "b1_pdp"
    /\ UNCHANGED <<aborted, out, mem, inputs>>

MatrixOdeSa ==
    /\ pc = "ready"
    /\ mat' = bloch_matrix_ode_sa(r1, r2, gb)
    /\ pc' = "matrix_ode_sa"
    /\ UNCHANGED <<aborted, out, mem, inputs>>

MatrixOdeSa2 ==
    /\ pc = "ready"
    /\ mat' = bloch_matrix_ode_sa2(r1, r2, gb, phase, b1)
    /\ pc' = "matrix_ode_sa2"
    /\ UNCHANGED <<aborted, out, mem, inputs>>

NextSa == B1Pdp \/ MatrixOdeSa \/ MatrixOdeSa2

SpecSa == InitSa /\ [][NextSa]_vars

(***************************************************************************)
(* Bloch-McConnell operator.  The pool arrays are those of pool 0 shifted  *)
(* by the pool index, and k[p][q] differs from k[q][p], so that no two     *)
(* pools agree by accident.  The output buffer starts with stale content and is used   *)
(* again by a second call with the same arguments.                         *)
(***************************************************************************)
MaxPools == 2
MaxExch == 1
MaxOffset == 1

PoolArgs(P, a, b, th, om, kd, ko) ==
    [P |-> P,
     r1 |-> [p \in 0..(P - 1) |-> a + p],
     r2 |-> [p \in 0..(P - 1) |-> b + 2 * p],
     Th |-> [p \in 0..(P - 1) |-> th + p],
     Om |-> [p \in 0..(P - 1) |-> om - p],
     k |-> [p \in 0..(P - 1) |-> [q \in 0..(P - 1) |->
              IF p = q THEN -kd * (1 + p) ELSE ko * (1 + p + 2 * q)]]]

StaleMat(P) == [i \in 0..(3 * P) |-> [j \in 0..(3 * P) |-> 7]]

InitMc ==
    /\ M = NoVec
    /\ r1 = 0
    /\ r2 = 0
    /\ gb \in Vec3s(0..MaxField)
    /\ angle = 0
    /\ phase = 0
    /\ b1 = 0
    /\ \E P \in 1..MaxPools, a \in RateVals, b \in RateVals, th \in 0..1,
          om \in 0..MaxOffset, kd \in 0..MaxExch, ko \in 0..MaxExch :
          pool = PoolArgs(P, a, b, th, om, kd, ko)
    /\ pc = "ready"
    /\ aborted = FALSE
    /\ out = NoVec
    /\ mat = StaleMat(pool.P)
    /\ mem = InitMem(M)

Mcconnel ==
    /\ pc \in {"ready", "mcconnel"}
    /\ mat' = bloch_mcconnel_matrix_ode(pool.P, mat, pool.r1, pool.r2, pool.k,
                                        pool.Th, pool.Om, gb)
    /\ pc' = IF pc = "ready" THEN "mcconnel" ELSE "mcconnel_again"
    /\ UNCHANGED <<aborted, out, mem, inputs>>

NextMc == Mcconnel

SpecMc == InitMc /\ [][NextMc]_vars

(***************************************************************************)
(* Properties.                                                             *)
(***************************************************************************)
E3(i) == [j \in 0..2 |-> IF j = i THEN 1 ELSE 0]

\* a row of an augmented operator applied to [Mx, My, Mz, 1]: columns 0..2
\* and the constant column last
Forced(row, last, v) == row[0] * v[0] + row[1] * v[1] + row[2] * v[2] + row[last] * 1

\* d(ode_j)/d(M_i); bloch_ode is affine in the state, so the unit difference
\* quotient is the derivative
DOde(j, i) ==
    bloch_ode([c \in 0..2 |-> M[c] + E3(i)[c]], r1, r2, gb)[j] - bloch_ode(M, r1, r2, gb)[j]

\* C1: rows 0..2 of the matrix of bloch_matrix_ode applied to [Mx, My, Mz, 1]
\* are bloch_ode(M, r1, r2, gb), and row 3 is zero.
C1_MatrixOdeReproducesOde ==
    pc = "matrix_ode" =>
        /\ DOMAIN mat = 0..3
        /\ \A i \in 0..2 : Forced(mat[i], 3, M) = bloch_ode(M, r1, r2, gb)[i]
        /\ \A j \in 0..3 : mat[3][j] = 0

C1_Witness ==
    /\ pc = "matrix_ode"
    /\ M = V3(1, -1, 0)
    /\ gb = V3(1, -1, 1)
    /\ r1 = 1
    /\ r2 = 1

\* C2: after one call and after a second call on the same buffer, whatever the
\* buffer held before, the McConnell matrix is (1+3P)x(1+3P) and has exactly
\* this shape: block (p,q), p # q, is k[p][q] times the identity; block (p,p)
\* is the leading 3x3 block of bloch_matrix_ode for the shifted field plus
\* k[p][p] times the identity; the last column holds Th[p]*r1[p] in row 3p+2
\* and zero elsewhere; the last row is zero.
C2_McconnelShape ==
    pc \in {"mcconnel", "mcconnel_again"} =>
        LET P == pool.P
            N == 1 + 3 * P
        IN  /\ DOMAIN mat = 0..(N - 1)
            /\ \A i \in 0..(N - 1) : DOMAIN mat[i] = 0..(N - 1)
            /\ \A p \in 0..(P - 1), q \in 0..(P - 1), i \in 0..2, j \in 0..2 :
                mat[3 * p + i][3 * q + j] =
                    IF p # q
                    THEN (IF i = j THEN pool.k[p][q] ELSE 0)
                    ELSE bloch_matrix_ode(pool.r1[p], pool.r2[p],
                             V3(gb[0], gb[1], gb[2] + pool.Om[p]))[i][j]
                         + (IF i = j THEN pool.k[p][p] ELSE 0)
            /\ \A p \in 0..(P - 1), i \in 0..2 :
                mat[3 * p + i][N - 1] = IF i = 2 THEN pool.Th[p] * pool.r1[p] ELSE 0
            /\ \A j \in 0..(N - 1) : mat[N - 1][j] = 0

C2_Witness ==
    /\ pc = "mcconnel_again"
    /\ pool.P = 2
    /\ pool.k[0][1] # 0
    /\ pool.k[0][1] # pool.k[1][0]
    /\ pool.k[0][0] # 0
    /\ pool.Th[0] # 0
    /\ pool.Om[0] # 0

\* C3: with one pool, k = [[0]] and Th = [1], the McConnell matrix equals the
\* matrix of bloch_matrix_ode(r1, r2, (gb[0], gb[1], gb[2] + Om)) entry by entry.
C3_ExchangeReduction ==
    (/\ pc \in {"mcconnel", "mcconnel_again"}
     /\ pool.P = 1
     /\ pool.k[0][0] = 0
     /\ pool.Th[0] = 1) =>
        mat = bloch_matrix_ode(pool.r1[0], pool.r2[0],
                               V3(gb[0], gb[1], gb[2] + pool.Om[0]))

C3_Witness ==
    /\ pc = "mcconnel"
    /\ pool.P = 1
    /\ pool.k[0][0] = 0
    /\ pool.Th[0] = 1
    /\ pool.Om[0] # 0
    /\ pool.r1[0] # 0
    /\ gb = V3(1, 1, 1)

\* C4: bloch_excitation2 with (-angle, phase) applied to the result of
\* bloch_excitation2 with (angle, phase) gives back the state M.
C4_RfInvertible ==
    pc = "excitation2_back" =>
        /\ mem.buf["back"] = JV3(M)
        /\ mem.buf["in"] = JV3(M)

C4_Witness ==
    /\ pc = "excitation2_back"
    /\ angle = 1
    /\ phase = 1
    /\ mem.buf["out"] # JV3(M)
    /\ mem.buf["back"] = JV3(M)

\* C5: bloch_relaxation aborts exactly when gb[0] # 0 or gb[1] # 0 and
\* bloch_excitation exactly when gb[2] # 0; an aborted call has stored nothing
\* (the output buffer is as it was); a call that passes the assertion has
\* stored every element of the output and left the input alone.
C5_AssertFailsFast ==
    /\ pc = "relaxation" => (aborted <=> (gb[0] # 0 \/ gb[1] # 0))
    /\ pc = "excitation" => (aborted <=> gb[2] # 0)
    /\ aborted => (pc \in {"relaxation", "excitation"} /\ mem = InitMem(M))
    /\ (pc \in {"relaxation", "excitation"} /\ ~aborted) =>
        /\ mem.stores["out"] >= 3
        /\ mem.stores["in"] = 0
        /\ mem.buf["in"] = JV3(M)
        /\ \A i \in 0..2 : mem.buf["out"][i][1] = M[i]

C5_Witness ==
    /\ pc = "relaxation"
    /\ aborted
    /\ gb = V3(0, 1, 0)
    /\ mem.buf["out"] = Stale

\* C8: for gb = (0, 0, w), bloch_relaxation returns M at t = 0 and its first
\* order coefficient in t is bloch_ode(M, r1, r2, gb), component by component.
C8_SmallTimeStep ==
    (pc = "relaxation" /\ ~aborted) =>
        \A i \in 0..2 : mem.buf["out"][i] = <<M[i], bloch_ode(M, r1, r2, gb)[i]>>

C8_Witness ==
    /\ pc = "relaxation"
    /\ ~aborted
    /\ gb[2] # 0
    /\ M = V3(1, -1, -1)
    /\ r1 = 1
    /\ r2 = 1

\* the rotation of v by a quarter turns about each axis, clockwise
RotX(v, a) == V3(v[0], v[1] * cosq(a) + v[2] * sinq(a), -v[1] * sinq(a) + v[2] * cosq(a))
RotY(v, a) == V3(v[0] * cosq(a) - v[2] * sinq(a), v[1], v[0] * sinq(a) + v[2] * cosq(a))
RotZ(v, a) == V3(v[0] * cosq(a) + v[1] * sinq(a), -v[0] * sinq(a) + v[1] * cosq(a), v[2])

\* C9: with distinct buffers a rotation kernel leaves in alone and out is the
\* rotation of in; with out = in the component computed last is computed
\* from the component the call has already overwritten.
C9_RotationAliasing ==
    /\ pc = "rotx" => (mem.buf["in"] = JV3(M) /\ mem.buf["out"] = JV3(RotX(M, angle)))
    /\ pc = "roty" => (mem.buf["in"] = JV3(M) /\ mem.buf["out"] = JV3(RotY(M, angle)))
    /\ pc = "rotz" => (mem.buf["in"] = JV3(M) /\ mem.buf["out"] = JV3(RotZ(M, angle)))
    /\ pc = "rotx_aliased" =>
        LET n == RotX(M, angle)[1]
        IN  mem.buf["in"] = JV3(V3(M[0], n, -n * sinq(angle) + M[2] * cosq(angle)))
    /\ pc = "roty_aliased" =>
        LET n == RotY(M, angle)[0]
        IN  mem.buf["in"] = JV3(V3(n, M[1], n * sinq(angle) + M[2] * cosq(angle)))
    /\ pc = "rotz_aliased" =>
        LET n == RotZ(M, angle)[0]
        IN  mem.buf["in"] = JV3(V3(n, -n * sinq(angle) + M[1] * cosq(angle), M[2]))

\* rotz of (1,0,0) by a quarter turn in place: the result is not the rotation
C9_Witness ==
    /\ pc = "rotz_aliased"
    /\ M = V3(1, 0, 0)
    /\ angle = 1
    /\ mem.buf["in"] = JV3(V3(0, 0, 0))
    /\ RotZ(M, angle) = V3(0, -1, 0)

\* C6 as stated: read as out[row][col], out[j][i] = d(ode_j)/d(M_i) and the
\* result equals the leading 3x3 block of bloch_matrix_ode.
C6_Original ==
    pc = "pdy" =>
        \A i \in 0..2, j \in 0..2 :
            /\ mat[j][i] = DOde(j, i)
            /\ mat[j][i] = bloch_matrix_ode(r1, r2, gb)[j][i]

\* C6 amended: row i of the result of bloch_pdy is e_i x gb minus the
\* relaxation rate at position i (r2 for x and y, r1 for z): out[i][j] =
\* d(ode_j)/d(M_i), the transpose of the leading 3x3 block of bloch_matrix_ode.
C6_PdyIsTransposedJacobian ==
    pc = "pdy" =>
        \A i \in 0..2, j \in 0..2 :
            /\ mat[i][j] = vec3_rot(E3(i), gb)[j]
                           - (IF i = j THEN (IF i = 2 THEN r1 ELSE r2) ELSE 0)
            /\ mat[i][j] = DOde(j, i)
            /\ mat[i][j] = bloch_matrix_ode(r1, r2, gb)[j][i]

C6_Witness ==
    /\ pc = "pdy"
    /\ gb = V3(1, 1, 1)
    /\ r1 = 1
    /\ r2 = 0
    /\ mat[0][1] # mat[1][0]
    /\ mat[0][1] = DOde(1, 0)

\* C7 as stated: the only entry of the last column of the 10x10 operator that
\* can be nonzero is m0*r1 in row 2.
C7_Original ==
    pc = "matrix_ode_sa" =>
        \A i \in 0..9 : mat[i][9] = IF i = 2 THEN m0 * r1 ELSE 0

\* C7 amended: the last column of the 10x10 operator holds m0*r1 in row 2
\* (block 0), m0 in row 5 (the z row of the R1-sensitivity block) and zero
\* in every other row.
C7_ForcingColumn ==
    pc = "matrix_ode_sa" =>
        \A i \in 0..9 :
            mat[i][9] = CASE i = 2 -> m0 * r1 [] i = 5 -> m0 [] OTHER -> 0

C7_Witness ==
    /\ pc = "matrix_ode_sa"
    /\ r1 = 1
    /\ gb = V3(1, 1, 1)
    /\ mat[2][9] = 1
    /\ mat[5][9] = 1

\* index of the 13x13 operator that row or column x of the 10x10 one maps to
\* when block 3 (9..11) is deleted
SkipB1(x) == IF x < 9 THEN x ELSE x + 3

Sa2Couplings ==
    \A b \in 1..3, i \in 0..2 :
        Forced(mat[3 * b + i], 12, M) = bloch_b1_pdp(M, r1, r2, gb, phase, b1)[b - 1][i]

Sa2DiagonalBlocks ==
    \A b \in 0..3, i \in 0..2, j \in 0..2 :
        mat[3 * b + i][3 * b + j] = bloch_matrix_ode(r1, r2, gb)[i][j]

\* entry (r, c) belongs to a diagonal block or to the couplings of a
\* sensitivity row (columns 0..2 and the constant column)
Sa2Named(r, c) ==
    \/ (r < 12 /\ c < 12 /\ (r \div 3) = (c \div 3))
    \/ (r \in 3..11 /\ c \in {0, 1, 2, 12})

Sa2ContainsSa ==
    LET sa == bloch_matrix_ode_sa(r1, r2, gb)
    IN  /\ \A r \in 0..9, c \in 0..9 : sa[r][c] = mat[SkipB1(r)][SkipB1(c)]
        /\ \A b \in 1..2, i \in 0..2 :
            Forced(sa[3 * b + i], 9, M) = bloch_pdp(M, r1, r2, gb)[b - 1][i]

\* C10 as stated: couplings equal bloch_b1_pdp, diagonal blocks equal the
\* base block, all other entries are zero, deleting block 3 gives the 10x10
\* operator whose couplings equal bloch_pdp.
C10_Original ==
    pc = "matrix_ode_sa2" =>
        /\ Sa2Couplings
        /\ Sa2DiagonalBlocks
        /\ \A r \in 0..12, c \in 0..12 : ~Sa2Named(r, c) => mat[r][c] = 0
        /\ Sa2ContainsSa

\* C10 amended: as stated, except that among the other entries the constant
\* column of block 0 holds the forcing m0*r1 in row 2; all the rest are zero.
C10_ChainRule ==
    pc = "matrix_ode_sa2" =>
        /\ Sa2Couplings
        /\ Sa2DiagonalBlocks
        /\ \A r \in 0..12, c \in 0..12 :
            ~Sa2Named(r, c) => mat[r][c] = IF r = 2 /\ c = 12 THEN m0 * r1 ELSE 0
        /\ Sa2ContainsSa

C10_Witness ==
    /\ pc = "matrix_ode_sa2"
    /\ M = V3(1, 1, 0)
    /\ r1 = 1
    /\ b1 = 2
    /\ phase = 1
    /\ gb = V3(1, 0, 1)
    /\ mat[9][2] = 2
    /\ mat[2][12] = 1

====
